---- MODULE Spec2Model ----
(***************************************************************************)
(* A model of the South Carolina bill scraper (scrapers/sc/bills.py):      *)
(* the action classifier, the index page resolver, the roll-call roster    *)
(* parser, the bill detail parser, the vote history parser and the         *)
(* orchestrating scrape() generator.                                       *)
(*                                                                         *)
(* Python str values are TLA+ strings; Len, \o and SubSeq act on them as   *)
(* len(), + and slicing do.  Python None is the string "None" where the    *)
(* other values of the variable are strings.                               *)
(***************************************************************************)
EXTENDS Integers, Sequences, FiniteSets, TLC

VARIABLES
    \* a call of one of the module-level functions and what it returned
    fn_call, fn_ret, fn_pc,
    \* scrape_rollcall: the lines read so far, the loop's two locals, the
    \* calls made on the VoteEvent, and where the loop stands
    pdflines, current_vfunc, option, votes, rc_pc,
    \* scrape(): where the generator stands, its arguments and loop variables
    \* (the chambers, day links and bill links still to visit), the detail
    \* page last parsed, the scraper's _seen_vote_ids and _subjects, the
    \* records yielded and the URLs fetched so far, and the exception that
    \* ended the run
    sc_pc, sc_session, sc_chamber, chambers, days, bill_links, sc_page,
    _seen_vote_ids, _subjects, emitted, fetched, raised,
    \* http.client.HTTPConnection's two class attributes, and for each
    \* thread making a request where it stands and the protocol version its
    \* request went out with
    HTTPConnection, th_pc, th_seen,
    \* a NameMatcher: its self.names dict, the registrations made on it so far,
    \* and the last lookup and what it returned
    self_names, nm_log, nm_query, nm_ret

fnVars == <<fn_call, fn_ret, fn_pc>>
rcVars == <<pdflines, current_vfunc, option, votes, rc_pc>>
scVars == <<sc_pc, sc_session, sc_chamber, chambers, days, bill_links, sc_page,
            _seen_vote_ids, _subjects, emitted, fetched, raised>>
tgVars == <<HTTPConnection, th_pc, th_seen>>
nmVars == <<self_names, nm_log, nm_query, nm_ret>>
vars == <<fnVars, rcVars, scVars, tgVars, nmVars>>

-----------------------------------------------------------------------------
(* What a component's variables hold while another component is run *)

RcIdle ==
    /\ pdflines = <<>>
    /\ current_vfunc = "None"
    /\ option = "None"
    /\ votes = <<>>
    /\ rc_pc = "idle"

FnIdle ==
    /\ fn_call = [fn |-> "none", args |-> <<>>]
    /\ fn_ret = "None"
    /\ fn_pc = "idle"

\* what scrape_details reads off a detail page and the pages it links
DetailPage(text, bill_type, version_url, prever, actions, vurl, votes_) ==
    [text |-> text, bill_type |-> bill_type, version_url |-> version_url,
     prever |-> prever, actions |-> actions, vurl |-> vurl, votes |-> votes_]

NoPage == DetailPage("", "", "", <<>>, <<>>, <<>>, <<>>)

ScIdle ==
    /\ sc_pc = "idle"
    /\ sc_session = "None"
    /\ sc_chamber = "None"
    /\ chambers = <<>>
    /\ days = <<>>
    /\ bill_links = <<>>
    /\ sc_page = NoPage
    /\ _seen_vote_ids = {}
    /\ _subjects = <<>>
    /\ emitted = <<>>
    /\ fetched = <<>>
    /\ raised = "None"

\* the threads of the process that make requests
MaxThreads == 2

Threads == 1..MaxThreads

\* http.client.HTTPConnection._http_vsn and _http_vsn_str as the standard
\* library defines them, which is what the module reads at import
_HTTP_VSN == 11
_HTTP_VSN_STR == "HTTP/1.1"

TgIdle ==
    /\ HTTPConnection = [_http_vsn |-> _HTTP_VSN, _http_vsn_str |-> _HTTP_VSN_STR]
    /\ th_pc = [t \in Threads |-> "idle"]
    /\ th_seen = [t \in Threads |-> "None"]

NmIdle ==
    /\ self_names = <<>>
    /\ nm_log = <<>>
    /\ nm_query = "None"
    /\ nm_ret = "None"

-----------------------------------------------------------------------------
(* Python's str methods, on TLA+ strings *)

UpperChars == "ABCDEFGHIJKLMNOPQRSTUVWXYZ"
LowerChars == "abcdefghijklmnopqrstuvwxyz"
Digits == "0123456789"

CharAt(s, i) == SubSeq(s, i, i)

\* the position of the one-character string c in the string s, 0 if absent
IndexIn(s, c) ==
    IF \E i \in 1..Len(s) : CharAt(s, i) = c
    THEN CHOOSE i \in 1..Len(s) : CharAt(s, i) = c /\ \A j \in 1..(i-1) : CharAt(s, j) # c
    ELSE 0

\* the lower-case letter of every upper-case letter
LowerMap ==
    [c \in {CharAt(UpperChars, i) : i \in 1..Len(UpperChars)} |->
        CharAt(LowerChars, IndexIn(UpperChars, c))]

LowerChar(c) == IF c \in DOMAIN LowerMap THEN LowerMap[c] ELSE c

RECURSIVE Lower(_)
\* str.lower()
Lower(s) ==
    IF s = "" THEN "" ELSE LowerChar(CharAt(s, 1)) \o Lower(SubSeq(s, 2, Len(s)))

\* str.startswith(p)
StartsWith(s, p) == Len(s) >= Len(p) /\ SubSeq(s, 1, Len(p)) = p

RECURSIVE FindFrom(_, _, _)
\* the first position from i on where sub occurs in s, 0 if nowhere
FindFrom(s, sub, i) ==
    IF i + Len(sub) - 1 > Len(s) THEN 0
    ELSE IF SubSeq(s, i, i + Len(sub) - 1) = sub THEN i
    ELSE FindFrom(s, sub, i + 1)

\* str.find(sub) + 1: the first position where sub occurs in s, 0 if nowhere
Find(s, sub) == FindFrom(s, sub, 1)

\* `sub in s`
Contains(s, sub) == Find(s, sub) > 0

\* the characters str.strip() and the regex class \s remove
IsSpace(c) == c \in {" ", "\t", "\n", "\r"}

RECURSIVE LStrip(_)
LStrip(s) ==
    IF s # "" /\ IsSpace(CharAt(s, 1)) THEN LStrip(SubSeq(s, 2, Len(s))) ELSE s

RECURSIVE RStrip(_)
RStrip(s) ==
    IF s # "" /\ IsSpace(CharAt(s, Len(s))) THEN RStrip(SubSeq(s, 1, Len(s) - 1)) ELSE s

\* str.strip()
Strip(s) == RStrip(LStrip(s))

\* s.split(sep)[0]
SplitFirst(s, sep) ==
    LET i == Find(s, sep) IN IF i > 0 THEN SubSeq(s, 1, i - 1) ELSE s

\* the value of every decimal digit
DigitValue == [c \in {CharAt(Digits, i) : i \in 1..Len(Digits)} |-> IndexIn(Digits, c) - 1]

IsDigit(c) == c \in DOMAIN DigitValue

IsDigits(s) == s # "" /\ \A i \in 1..Len(s) : IsDigit(CharAt(s, i))

-----------------------------------------------------------------------------
(* action_type: the ordered table of (prefix, tags) rules *)

\* the three shapes action_type returns: one tag (a str), several (a list), None
Str(t) == [kind |-> "str", tags |-> <<t>>]
List(ts) == [kind |-> "list", tags |-> ts]
None == [kind |-> "None", tags |-> <<>>]

\* the table with its rules in alphabetical order of prefix
classifiers_sorted ==
    << <<"Adopted", Str("passage")>>,
       <<"Amended", Str("amendment-passage")>>,
       <<"Amended and adopted", List(<<"passage", "amendment-passage">>)>>,
       <<"Certain items vetoed", Str("executive-veto-line-item")>>,
       <<"Committed to", Str("referral-committee")>>,
       <<"Committee Amendment Adopted", Str("amendment-passage")>>,
       <<"Committee Amendment Amended", Str("amendment-amendment")>>,
       <<"Committee Amendment Amended and Adopted",
         List(<<"amendment-passage", "amendment-amendment">>)>>,
       <<"Committee Amendment Tabled", Str("amendment-deferral")>>,
       <<"Committee report: Favorable", Str("committee-passage-favorable")>>,
       <<"Committee report: Majority favorable", Str("committee-passage")>>,
       <<"House amendment amended", Str("amendment-amendment")>>,
       <<"Introduced", Str("introduction")>>,
       <<"Introduced and adopted", List(<<"introduction", "passage">>)>>,
       <<"Introduced and read first time", List(<<"introduction", "reading-1">>)>>,
       <<"Introduced, adopted", List(<<"introduction", "passage">>)>>,
       <<"Introduced, read first time", List(<<"introduction", "reading-1">>)>>,
       <<"Prefiled", Str("filing")>>,
       <<"Read second time", Str("reading-2")>>,
       <<"Read third time", List(<<"passage", "reading-3">>)>>,
       <<"Recommitted to Committee", Str("referral-committee")>>,
       <<"Referred to Committee", Str("referral-committee")>>,
       <<"Rejected", Str("failure")>>,
       <<"Senate amendment amended", Str("amendment-amendment")>>,
       <<"Signed by Governor", Str("executive-signature")>>,
       <<"Signed by governor", Str("executive-signature")>>,
       <<"Tabled", Str("failure")>>,
       <<"Veto overridden", Str("veto-override-passage")>>,
       <<"Veto sustained", Str("veto-override-failure")>>,
       <<"Vetoed by Governor", Str("executive-veto")>> >>

classifiers ==
    << <<"Adopted", Str("passage")>>,
       <<"Amended and adopted", List(<<"passage", "amendment-passage">>)>>,
       <<"Amended", Str("amendment-passage")>>,
       <<"Certain items vetoed", Str("executive-veto-line-item")>>,
       <<"Committed to", Str("referral-committee")>>,
       <<"Committee Amendment Adopted", Str("amendment-passage")>>,
       <<"Committee Amendment Amended and Adopted",
         List(<<"amendment-passage", "amendment-amendment">>)>>,
       <<"Committee Amendment Amended", Str("amendment-amendment")>>,
       <<"Committee Amendment Tabled", Str("amendment-deferral")>>,
       <<"Committee report: Favorable", Str("committee-passage-favorable")>>,
       <<"Committee report: Majority favorable", Str("committee-passage")>>,
       <<"House amendment amended", Str("amendment-amendment")>>,
       <<"Introduced and adopted", List(<<"introduction", "passage">>)>>,
       <<"Introduced, adopted", List(<<"introduction", "passage">>)>>,
       <<"Introduced and read first time", List(<<"introduction", "reading-1">>)>>,
       <<"Introduced, read first time", List(<<"introduction", "reading-1">>)>>,
       <<"Introduced", Str("introduction")>>,
       <<"Prefiled", Str("filing")>>,
       <<"Read second time", Str("reading-2")>>,
       <<"Read third time", List(<<"passage", "reading-3">>)>>,
       <<"Recommitted to Committee", Str("referral-committee")>>,
       <<"Referred to Committee", Str("referral-committee")>>,
       <<"Rejected", Str("failure")>>,
       <<"Senate amendment amended", Str("amendment-amendment")>>,
       <<"Signed by governor", Str("executive-signature")>>,
       <<"Signed by Governor", Str("executive-signature")>>,
       <<"Tabled", Str("failure")>>,
       <<"Veto overridden", Str("veto-override-passage")>>,
       <<"Veto sustained", Str("veto-override-failure")>>,
       <<"Vetoed by Governor", Str("executive-veto")>> >>

\* prefix.lower() of every rule
LowerPrefixes == [i \in 1..Len(classifiers) |-> Lower(classifiers[i][1])]

RECURSIVE action_type_from(_, _)
\* the for loop of action_type, from rule i on, on action.lower()
action_type_from(lowered, i) ==
    IF i > Len(classifiers) THEN None
    ELSE IF StartsWith(lowered, LowerPrefixes[i]) THEN classifiers[i][2]
    ELSE action_type_from(lowered, i + 1)

action_type(action) == action_type_from(Lower(action), 1)

-----------------------------------------------------------------------------
(* get_index_url *)

web_archive_ids ==
    ("2017-2018-lower" :> "20181101144929") @@
    ("2017-2018-upper" :> "20181101144422") @@
    ("2019-2020-lower" :> "20201101155143") @@
    ("2019-2020-upper" :> "20201101152857") @@
    ("2021-2022-lower" :> "20221110101038") @@
    ("2021-2022-upper" :> "20221110101352")

\* dict.get(key, None)
DictGet(d, key) == IF key \in DOMAIN d THEN d[key] ELSE "None"

\* get_index_url with the archive id and the direct URL joined without "/"
get_index_url_no_slash(session, chamber, chamber_letter) ==
    LET index_url == "https://www.scstatehouse.gov/sessphp/" \o chamber_letter \o "intros.php"
        web_archive_id == DictGet(web_archive_ids, session \o "-" \o chamber)
    IN  IF web_archive_id \notin {"None", ""}
        THEN "https://web.archive.org/web/" \o web_archive_id \o index_url
        ELSE index_url

get_index_url(session, chamber, chamber_letter) ==
    LET index_url == "https://www.scstatehouse.gov/sessphp/" \o chamber_letter \o "intros.php"
        web_archive_id == DictGet(web_archive_ids, session \o "-" \o chamber)
    IN  IF web_archive_id \notin {"None", ""}
        THEN LET web_arch_prepend == "https://web.archive.org/web/" \o web_archive_id
             IN  web_arch_prepend \o "/" \o index_url
        ELSE index_url

-----------------------------------------------------------------------------
(* scrape_rollcall: the line loop over the converted roll-call document *)

RECURSIVE WsRunLen(_, _)
\* how many whitespace characters follow one another in s from position i on
WsRunLen(s, i) ==
    IF i <= Len(s) /\ IsSpace(CharAt(s, i)) THEN 1 + WsRunLen(s, i + 1) ELSE 0

\* where the leftmost run of 3 or more whitespace characters starts, 0 if none
FirstWsRun(s) ==
    LET starts == {i \in 1..Len(s) : WsRunLen(s, i) >= 3}
    IN  IF starts = {} THEN 0 ELSE CHOOSE i \in starts : \A j \in starts : i <= j

RECURSIVE ReSplitWs3(_)
\* re.split(r"\s{3,}", s)
ReSplitWs3(s) ==
    LET i == FirstWsRun(s)
    IN  IF i = 0 THEN <<s>>
        ELSE <<SubSeq(s, 1, i - 1)>> \o ReSplitWs3(SubSeq(s, i + WsRunLen(s, i), Len(s)))

\* one call made on the VoteEvent: vote.yes / vote.no / vote.vote, with the
\* option keyword it was given ("None": the positional call of line 341)
VoteCall(vfunc, opt, name) == [func |-> vfunc, option |-> opt, voter |-> name]

RECURSIVE RecordNames(_, _, _)
\* the inner loop over the names of one line
RecordNames(names, vfunc, opt) ==
    IF names = <<>> THEN <<>>
    ELSE (IF Head(names) # ""
          THEN <<VoteCall(vfunc, opt, Strip(Head(names)))>>
          ELSE <<>>)
         \o RecordNames(Tail(names), vfunc, opt)

\* the loop body with a blank line clearing what is being recorded
RollcallLineResetting(raw, vfunc, opt) ==
    LET line == Strip(raw)
    IN  IF StartsWith(line, "YEAS") \/ StartsWith(line, "AYES")
        THEN [vfunc |-> "yes", option |-> opt, calls |-> <<>>]
        ELSE IF StartsWith(line, "NAYS")
        THEN [vfunc |-> "no", option |-> opt, calls |-> <<>>]
        ELSE IF StartsWith(line, "EXCUSED") \/ StartsWith(line, "NOT VOTING")
                \/ StartsWith(line, "ABSTAIN")
        THEN [vfunc |-> "vote", option |-> "excused", calls |-> <<>>]
        ELSE IF StartsWith(line, "PAIRED")
        THEN [vfunc |-> "vote", option |-> "paired", calls |-> <<>>]
        ELSE IF line = "" \/ StartsWith(line, "Page ")
        THEN [vfunc |-> "None", option |-> opt, calls |-> <<>>]
        ELSE IF vfunc # "None"
        THEN [vfunc |-> vfunc, option |-> opt,
              calls |-> RecordNames(ReSplitWs3(line), vfunc, opt)]
        ELSE [vfunc |-> vfunc, option |-> opt, calls |-> <<>>]

\* one pass of the loop body on the raw line: the new current_vfunc and
\* option, and the calls made on the VoteEvent
RollcallLine(raw, vfunc, opt) ==
    LET line == Strip(raw)
    IN  IF StartsWith(line, "YEAS") \/ StartsWith(line, "AYES")
        THEN [vfunc |-> "yes", option |-> opt, calls |-> <<>>]
        ELSE IF StartsWith(line, "NAYS")
        THEN [vfunc |-> "no", option |-> opt, calls |-> <<>>]
        ELSE IF StartsWith(line, "EXCUSED")
        THEN [vfunc |-> "vote", option |-> "excused", calls |-> <<>>]
        ELSE IF StartsWith(line, "NOT VOTING")
        THEN [vfunc |-> "vote", option |-> "excused", calls |-> <<>>]
        ELSE IF StartsWith(line, "ABSTAIN")
        THEN [vfunc |-> "vote", option |-> "excused", calls |-> <<>>]
        ELSE IF StartsWith(line, "PAIRED")
        THEN [vfunc |-> "vote", option |-> "paired", calls |-> <<>>]
        ELSE IF line = "" \/ StartsWith(line, "Page ")
        THEN [vfunc |-> vfunc, option |-> opt, calls |-> <<>>]
        ELSE IF vfunc # "None"
        THEN [vfunc |-> vfunc, option |-> opt,
              calls |-> RecordNames(ReSplitWs3(line), vfunc, opt)]
        ELSE [vfunc |-> vfunc, option |-> opt, calls |-> <<>>]

\* how many lines a roll-call document has at most
MaxLines == 4

\* the lines pdflines.split(b"\n") yields: headers, roster lines, blank lines
\* and page footers, with the padding pdftotext leaves around them
LineInputs ==
    {"YEAS", " AYES - 3", "NAYS", "EXCUSED", "NOT VOTING", "ABSTAIN", "PAIRED",
     "", "   ", "Page 1 of 2",
     "Smith   Jones   Lee", "Doe", "  Al  Bo \t  Cy  "}

InitRollcall ==
    /\ pdflines = <<>>
    /\ current_vfunc = "None"
    /\ option = "None"
    /\ votes = <<>>
    /\ rc_pc = "loop"
    /\ FnIdle
    /\ ScIdle
    /\ TgIdle
    /\ NmIdle

\* one iteration of `for line in pdflines.split(b"\n")`
rollcall_line ==
    /\ rc_pc = "loop"
    /\ Len(pdflines) < MaxLines
    /\ \E raw \in LineInputs :
          LET r == RollcallLine(raw, current_vfunc, option)
          IN  /\ pdflines' = Append(pdflines, raw)
              /\ current_vfunc' = r.vfunc
              /\ option' = r.option
              /\ votes' = votes \o r.calls
    /\ UNCHANGED <<rc_pc, fnVars, scVars, tgVars, nmVars>>

\* the document has no more lines: scrape_rollcall returns
rollcall_return ==
    /\ rc_pc = "loop"
    /\ rc_pc' = "done"
    /\ UNCHANGED <<pdflines, current_vfunc, option, votes, fnVars, scVars, tgVars, nmVars>>

NextRollcall == rollcall_line \/ rollcall_return

SpecRollcall == InitRollcall /\ [][NextRollcall]_vars

-----------------------------------------------------------------------------
(* scrape_details: dates, action rows, bill type, versions *)

RECURSIVE Replace(_, _, _)
\* str.replace(old, new), old not empty
Replace(s, old, new) ==
    LET i == Find(s, old)
    IN  IF i = 0 THEN s
        ELSE SubSeq(s, 1, i - 1) \o new \o Replace(SubSeq(s, i + Len(old), Len(s)), old, new)

RECURSIVE Split(_, _)
\* str.split(sep)
Split(s, sep) ==
    LET i == Find(s, sep)
    IN  IF i = 0 THEN <<s>>
        ELSE <<SubSeq(s, 1, i - 1)>> \o Split(SubSeq(s, i + Len(sep), Len(s)), sep)

RECURSIVE ToInt(_)
\* int() of a string of digits
ToInt(s) ==
    IF s = "" THEN 0
    ELSE 10 * ToInt(SubSeq(s, 1, Len(s) - 1)) + DigitValue[CharAt(s, Len(s))]

RECURSIVE ZeroPad(_, _)
\* the decimal digits of n, zero-padded to the given width (%Y, %m, %d)
ZeroPad(n, width) ==
    IF width = 0 THEN ""
    ELSE ZeroPad(n \div 10, width - 1) \o CharAt(Digits, (n % 10) + 1)

IsLeap(year) == year % 4 = 0 /\ (year % 100 # 0 \/ year % 400 = 0)

DaysInMonth(year, month) ==
    IF month = 2 THEN (IF IsLeap(year) THEN 29 ELSE 28)
    ELSE IF month \in {4, 6, 9, 11} THEN 30 ELSE 31

\* datetime.datetime.strptime(text, "%m/%d/%y"): the date, or ok = FALSE where
\* strptime raises ValueError
strptime_mdy(text) ==
    LET parts == Split(text, "/")
        wellFormed ==
            /\ Len(parts) = 3
            /\ \A k \in 1..3 : IsDigits(parts[k])
            /\ Len(parts[1]) \in {1, 2}
            /\ Len(parts[2]) \in {1, 2}
            /\ Len(parts[3]) = 2
        yy == ToInt(parts[3])
        year == IF yy <= 68 THEN 2000 + yy ELSE 1900 + yy
        month == ToInt(parts[1])
        day == ToInt(parts[2])
    IN  IF wellFormed /\ month \in 1..12 /\ day \in 1..DaysInMonth(year, month)
        THEN [ok |-> TRUE, year |-> year, month |-> month, day |-> day]
        ELSE [ok |-> FALSE, year |-> 0, month |-> 0, day |-> 0]

\* date.strftime("%Y-%m-%d")
strftime_iso(date) ==
    ZeroPad(date.year, 4) \o "-" \o ZeroPad(date.month, 2) \o "-" \o ZeroPad(date.day, 2)

\* the description cut at "(Senate Journal" only
StripJournalSenateOnly(text) == Strip(SplitFirst(text, "(Senate Journal"))

\* action.split("(House Journal")[0], then .split("(Senate Journal")[0].strip()
StripJournal(text) == Strip(SplitFirst(SplitFirst(text, "(House Journal"), "(Senate Journal"))

\* {"Senate": "upper", "House": "lower", None: "legislature"}
action_chambers ==
    ("Senate" :> "upper") @@ ("House" :> "lower") @@ ("None" :> "legislature")

RECURSIVE ScrapeActions(_)
\* the loop over the rows of the action table: the actions added to the
\* bill, and the exception that ended the loop ("None": it ran to its end)
ScrapeActions(rows) ==
    IF rows = <<>> THEN [actions |-> <<>>, raised |-> "None"]
    ELSE LET row == Head(rows)
         IN  IF Len(row) # 3 THEN [actions |-> <<>>, raised |-> "ValueError"]
             ELSE IF ~strptime_mdy(row[1]).ok THEN [actions |-> <<>>, raised |-> "ValueError"]
             ELSE IF row[2] \notin DOMAIN action_chambers
             THEN [actions |-> <<>>, raised |-> "KeyError"]
             ELSE LET action == StripJournal(row[3])
                      added == [description |-> action,
                                date |-> strftime_iso(strptime_mdy(row[1])),
                                chamber |-> action_chambers[row[2]],
                                classification |-> action_type(action)]
                      rest == ScrapeActions(Tail(rows))
                  IN  [actions |-> <<added>> \o rest.actions, raised |-> rest.raised]

\* the bill type chain with bare "Resolution" tested first
BillTypeResolutionFirst(label) ==
    IF Contains(label, "General Bill") THEN "bill"
    ELSE IF Contains(label, "Resolution") THEN "resolution"
    ELSE IF Contains(label, "Concurrent Resolution") THEN "concurrent resolution"
    ELSE IF Contains(label, "Joint Resolution") THEN "joint resolution"
    ELSE "ValueError"

\* the if/elif chain on the bill type label; "ValueError" where it raises
BillType(label) ==
    IF Contains(label, "General Bill") THEN "bill"
    ELSE IF Contains(label, "Concurrent Resolution") THEN "concurrent resolution"
    ELSE IF Contains(label, "Joint Resolution") THEN "joint resolution"
    ELSE IF Contains(label, "Resolution") THEN "resolution"
    ELSE "ValueError"

\* bill.add_version_link(..., on_duplicate="ignore"): a link whose URL the
\* bill already has is dropped
AddVersion(versions, v) ==
    IF \E k \in 1..Len(versions) : versions[k].url = v.url THEN versions
    ELSE Append(versions, v)

RECURSIVE AddVersions(_, _)
AddVersions(versions, vs) ==
    IF vs = <<>> THEN versions ELSE AddVersions(AddVersion(versions, Head(vs)), Tail(vs))

DocxType == "application/vnd.openxmlformats-officedocument.wordprocessingml.document"

\* the version links of a bill: those of the fetched versions page, then the
\* two "Filed" links when the full-text link points into /bills/
ScrapeVersions(version_url, prever) ==
    LET listed == AddVersions(<<>>,
                     [k \in 1..Len(prever) |->
                        [note |-> prever[k][1], url |-> prever[k][2],
                         media_type |-> "text/html"]])
    IN  IF Contains(Lower(version_url), "/bills/")
        THEN AddVersions(listed,
                 << [note |-> "Filed", url |-> version_url, media_type |-> "text/html"],
                    [note |-> "Filed", url |-> Replace(version_url, ".htm", ".docx"),
                     media_type |-> DocxType] >>)
        ELSE listed

-----------------------------------------------------------------------------
(* scrape_vote_history and scrape_details *)

U1 == "https://www.scstatehouse.gov/votehistory.php?KEY=101"
U2 == "https://www.scstatehouse.gov/votehistory.php?KEY=102"
U3 == "https://www.scstatehouse.gov/votehistory.php?KEY=103"

\* the text convert_pdf gives for each roll-call document, split on "\n"
RollcallDocs ==
    (U1 :> <<"YEAS", "Smith   Jones", "NAYS", "Doe">>) @@
    (U2 :> <<"AYES", "Cobb", "", "EXCUSED", "Lee">>) @@
    (U3 :> <<"Page 1", "Hutto">>)

RECURSIVE RollcallFrom(_, _, _)
\* the line loop of scrape_rollcall over a whole document: the calls made
RollcallFrom(lines, vfunc, opt) ==
    IF lines = <<>> THEN <<>>
    ELSE LET r == RollcallLine(Head(lines), vfunc, opt)
         IN  r.calls \o RollcallFrom(Tail(lines), r.vfunc, r.option)

\* the roster the line loop leaves on the VoteEvent, for each document
Rosters == [u \in DOMAIN RollcallDocs |-> RollcallFrom(RollcallDocs[u], "None", "None")]

\* scrape_rollcall(vote, vurl): the roster put on the VoteEvent
scrape_rollcall(vurl) == Rosters[vurl]

\* the VoteEvent built from an 11-cell row of the listing page vurl
VoteEventOf(bill_id, vurl, row) ==
    [type |-> "VoteEvent",
     bill |-> bill_id,
     chamber |-> IF Contains(row.link_text, "[H]") THEN "lower" ELSE "upper",
     motion_text |-> row.motion,
     result |-> IF row.result = "Passed" THEN "pass" ELSE "fail",
     yes |-> row.yeas,
     no |-> row.nays,
     other |-> row.nv + row.exc + row.abst + row.pres,
     votes |-> scrape_rollcall(row.href),
     sources |-> <<vurl, row.href>>,
     dedupe_key |-> row.href]

RECURSIVE VoteRowsNoAssert(_, _, _, _)
\* the row loop without the assert on the counts
VoteRowsNoAssert(bill_id, vurl, rows, seen) ==
    IF rows = <<>>
    THEN [emitted |-> <<>>, fetched |-> <<>>, seen |-> seen, raised |-> "None"]
    ELSE LET row == Head(rows)
         IN  IF row.cells # 11
             THEN VoteRowsNoAssert(bill_id, vurl, Tail(rows), seen)
             ELSE LET dup == row.href \in seen
                      rest == VoteRowsNoAssert(bill_id, vurl, Tail(rows), seen \cup {row.href})
                  IN  [emitted |-> (IF dup THEN <<>> ELSE <<VoteEventOf(bill_id, vurl, row)>>)
                                     \o rest.emitted,
                       fetched |-> <<row.href>> \o rest.fetched,
                       seen |-> rest.seen,
                       raised |-> rest.raised]

RECURSIVE VoteRowsNoDedup(_, _, _, _)
\* the row loop yielding a VoteEvent for every row, seen or not
VoteRowsNoDedup(bill_id, vurl, rows, seen) ==
    IF rows = <<>>
    THEN [emitted |-> <<>>, fetched |-> <<>>, seen |-> seen, raised |-> "None"]
    ELSE LET row == Head(rows)
         IN  IF row.cells # 11
             THEN VoteRowsNoDedup(bill_id, vurl, Tail(rows), seen)
             ELSE IF row.yeas + row.nays + (row.nv + row.exc + row.abst + row.pres) # row.total
             THEN [emitted |-> <<>>, fetched |-> <<>>, seen |-> seen,
                   raised |-> "AssertionError"]
             ELSE LET rest == VoteRowsNoDedup(bill_id, vurl, Tail(rows), seen \cup {row.href})
                  IN  [emitted |-> <<VoteEventOf(bill_id, vurl, row)>> \o rest.emitted,
                       fetched |-> <<row.href>> \o rest.fetched,
                       seen |-> rest.seen,
                       raised |-> rest.raised]

RECURSIVE VoteRows(_, _, _, _)
\* the loop over the data rows of a vote listing page: the VoteEvents
\* yielded, the roll-call documents retrieved, _seen_vote_ids afterwards and
\* the exception that ended the loop ("None": it ran to its end)
VoteRows(bill_id, vurl, rows, seen) ==
    IF rows = <<>>
    THEN [emitted |-> <<>>, fetched |-> <<>>, seen |-> seen, raised |-> "None"]
    ELSE LET row == Head(rows)
         IN  IF row.cells # 11
             THEN VoteRows(bill_id, vurl, Tail(rows), seen)
             ELSE IF row.yeas + row.nays + (row.nv + row.exc + row.abst + row.pres) # row.total
             THEN [emitted |-> <<>>, fetched |-> <<>>, seen |-> seen,
                   raised |-> "AssertionError"]
             ELSE LET dup == row.href \in seen
                      rest == VoteRows(bill_id, vurl, Tail(rows), seen \cup {row.href})
                  IN  [emitted |-> (IF dup THEN <<>> ELSE <<VoteEventOf(bill_id, vurl, row)>>)
                                     \o rest.emitted,
                       fetched |-> <<row.href>> \o rest.fetched,
                       seen |-> rest.seen,
                       raised |-> rest.raised]

\* scrape_vote_history walking the table from its second row on
scrape_vote_history_from_second(bill_id, vurl, table, seen) ==
    LET r == VoteRows(bill_id, vurl, SubSeq(table, 2, Len(table)), seen)
    IN  [r EXCEPT !.fetched = <<vurl>> \o r.fetched]

\* scrape_vote_history(bill, vurl): the listing page is fetched and its rows
\* after the first two are walked
scrape_vote_history(bill_id, vurl, table, seen) ==
    LET r == VoteRows(bill_id, vurl, SubSeq(table, 3, Len(table)), seen)
    IN  [r EXCEPT !.fetched = <<vurl>> \o r.fetched]

\* `if self._subjects: return` in scrape_subjects: a dict with a key is true
subjects_populated(subjects) == DOMAIN subjects # {}

\* self._subjects[bill_id] on the defaultdict(set): a missing key is inserted
\* with an empty set
SubjectsLookup(subjects, bill_id) ==
    IF bill_id \in DOMAIN subjects THEN subjects ELSE (bill_id :> {}) @@ subjects

\* scrape_details yielding the Bill ahead of the VoteEvents of its vote
\* history
ScrapeValidBillFirst(bill_detail_url, session, chamber, bill_id, page, seen, subjects) ==
    LET noFetch == [emitted |-> <<>>, fetched |-> <<>>, seen |-> seen, raised |-> "None"]
        acts == ScrapeActions(page.actions)
        votes_ == IF page.vurl = <<>> \/ acts.raised # "None" THEN noFetch
                  ELSE scrape_vote_history(bill_id, page.vurl[1], page.votes, seen)
        bill == [type |-> "Bill", bill_id |-> bill_id, legislative_session |-> session,
                 chamber |-> chamber, classification |-> BillType(page.bill_type),
                 subjects |-> SubjectsLookup(subjects, bill_id)[bill_id],
                 versions |-> ScrapeVersions(page.version_url, page.prever),
                 actions |-> acts.actions, sources |-> <<bill_detail_url>>]
    IN  IF BillType(page.bill_type) = "ValueError"
        THEN [emitted |-> <<>>, fetched |-> <<bill_detail_url>>, seen |-> seen,
              subjects |-> subjects, raised |-> "ValueError"]
        ELSE [emitted |-> (IF acts.raised = "None" /\ votes_.raised = "None"
                           THEN <<bill>> ELSE <<>>) \o votes_.emitted,
              fetched |-> <<bill_detail_url, page.version_url>> \o votes_.fetched,
              seen |-> votes_.seen,
              subjects |-> SubjectsLookup(subjects, bill_id),
              raised |-> IF acts.raised # "None" THEN acts.raised ELSE votes_.raised]

\* scrape_details from the parse of the page on (the page holds no
\* invalid-bill marker)
ScrapeValidBill(bill_detail_url, session, chamber, bill_id, page, seen, subjects) ==
    LET noFetch == [emitted |-> <<>>, fetched |-> <<>>, seen |-> seen, raised |-> "None"]
        acts == ScrapeActions(page.actions)
        votes_ == IF page.vurl = <<>> \/ acts.raised # "None" THEN noFetch
                  ELSE scrape_vote_history(bill_id, page.vurl[1], page.votes, seen)
        bill == [type |-> "Bill", bill_id |-> bill_id, legislative_session |-> session,
                 chamber |-> chamber, classification |-> BillType(page.bill_type),
                 subjects |-> SubjectsLookup(subjects, bill_id)[bill_id],
                 versions |-> ScrapeVersions(page.version_url, page.prever),
                 actions |-> acts.actions, sources |-> <<bill_detail_url>>]
    IN  IF BillType(page.bill_type) = "ValueError"
        THEN [emitted |-> <<>>, fetched |-> <<bill_detail_url>>, seen |-> seen,
              subjects |-> subjects, raised |-> "ValueError"]
        ELSE [emitted |-> votes_.emitted
                            \o (IF acts.raised = "None" /\ votes_.raised = "None"
                                THEN <<bill>> ELSE <<>>),
              fetched |-> <<bill_detail_url, page.version_url>> \o votes_.fetched,
              seen |-> votes_.seen,
              subjects |-> SubjectsLookup(subjects, bill_id),
              raised |-> IF acts.raised # "None" THEN acts.raised ELSE votes_.raised]

\* scrape_details without the test for the invalid-bill marker
scrape_details_unchecked(bill_detail_url, session, chamber, bill_id, page, seen, subjects) ==
    ScrapeValidBill(bill_detail_url, session, chamber, bill_id, page, seen, subjects)

\* scrape_details(bill_detail_url, session, chamber, bill_id) on the fetched
\* detail page: the records yielded in order, the URLs fetched in order,
\* _seen_vote_ids and _subjects afterwards, and the exception raised
scrape_details(bill_detail_url, session, chamber, bill_id, page, seen, subjects) ==
    IF Contains(page.text, "INVALID BILL NUMBER")
    THEN [emitted |-> <<>>, fetched |-> <<bill_detail_url>>, seen |-> seen,
          subjects |-> subjects, raised |-> "None"]
    ELSE ScrapeValidBill(bill_detail_url, session, chamber, bill_id, page, seen, subjects)

-----------------------------------------------------------------------------
(* scrape(): the walk over chambers, index days, prefiled days and bills *)

\* the match of r"https://web\.archive\.org/web/\d+/(.+)" at the start of
\* url: group(1), or "None" where re.match gives None
web_archive_group1(url) ==
    LET prefix == "https://web.archive.org/web/"
        rest == SubSeq(url, Len(prefix) + 1, Len(url))
        nonDigits == {i \in 1..Len(rest) : ~IsDigit(CharAt(rest, i))}
        \* where \d+ stops: the first character that is no digit
        stop == IF nonDigits = {} THEN Len(rest) + 1
                ELSE CHOOSE i \in nonDigits : \A j \in nonDigits : i <= j
    IN  IF StartsWith(url, prefix) /\ stop > 1 /\ stop < Len(rest) /\ CharAt(rest, stop) = "/"
        THEN SubSeq(rest, stop + 1, Len(rest))
        ELSE "None"

\* the day link as it is fetched: unwrapped when the regex matches it
DayUrl(day_url) ==
    IF web_archive_group1(day_url) # "None" THEN web_archive_group1(day_url) ELSE day_url

\* the wrapper a page served by the archive puts before the links it holds:
\* "https://web.archive.org/web/<id>/" of the URL it was fetched through
WrapperOf(url) ==
    IF web_archive_group1(url) = "None" THEN ""
    ELSE SubSeq(url, 1, Len(url) - Len(web_archive_group1(url)))

Site == "https://www.scstatehouse.gov/"

\* how many links a list of day links holds at most
MaxDays == 1
\* how many bill links a day page holds at most
MaxBills == 2
\* how many data rows a vote listing page holds at most
MaxRows == 2
\* how many bills one run scrapes at most
MaxScraped == 2

Min(a, b) == IF a < b THEN a ELSE b

\* how many detail pages the run has fetched
Scraped(urls) == Len(SelectSeq(urls, LAMBDA u : Contains(u, "billsearch.php?billnumbers=")))

\* the sequences of at most n elements of S
SeqsUpTo(S, n) == UNION {[1..k -> S] : k \in 0..n}

\* the day links (made absolute) an index page may hold: direct links on the
\* live site; on a page served by the archive, links wrapped once or twice
IndexDayLinks(index_url, letter) ==
    LET d1 == Site \o "sessphp/" \o letter \o "intros.php?DATE=0110"
        w == WrapperOf(index_url)
    IN  IF w = "" THEN {d1} ELSE {w \o d1, w \o w \o d1}

\* the day links the prefiled page (fetched from the live site) may hold
PrefileDayLinks(letter) == {Site \o "sessphp/prefil.php?DATE=1209&CHAMBER=" \o letter}

\* the first links of the paragraphs of a day page, (text, href), as the page
\* fetched through day_url holds them
BillLinkInputs(day_url) ==
    {<<"S. 1", WrapperOf(day_url) \o Site \o "billsearch.php?billnumbers=1">>,
     <<"H. 2", WrapperOf(day_url) \o Site \o "billsearch.php?billnumbers=2">>}

VoteUrl == Site \o "votehistory.php?billnumbers=1"

VersionsUrl == Site \o "query.php?summary=T"

VoteRow(cells, motion, link_text, href, yeas, nays, nv, exc, pres, abst, total, result) ==
    [cells |-> cells, motion |-> motion, link_text |-> link_text, href |-> href,
     yeas |-> yeas, nays |-> nays, nv |-> nv, exc |-> exc, pres |-> pres, abst |-> abst,
     total |-> total, result |-> result]

\* the two rows every listing table opens with; the second has 11 cells
VoteHeaderRows ==
    << VoteRow(1, "Vote History", "", "", 0, 0, 0, 0, 0, 0, 0, ""),
       VoteRow(11, "Motion", "[S] Vote", U3, 0, 0, 0, 0, 0, 0, 0, "Result") >>

\* data rows: one with a cell too few, one whose counts do not sum to the
\* total, two rows linking the same roll call, one linking another
VoteRowInputs ==
    {VoteRow(10, "Table", "[S] 0101", U3, 1, 1, 0, 0, 0, 0, 2, "Passed"),
     VoteRow(11, "Adopt", "[S] 0102", U2, 2, 1, 1, 0, 0, 0, 5, "Passed"),
     VoteRow(11, "Passage", "[S] 0101", U1, 2, 1, 0, 0, 0, 0, 3, "Passed"),
     VoteRow(11, "Concur", "[H] 0101", U1, 1, 1, 1, 1, 0, 0, 4, "Failed"),
     VoteRow(11, "Recede", "[H] 0102", U2, 1, 1, 1, 0, 1, 1, 5, "Rejected")}

VoteTables ==
    {<<>>} \cup {VoteHeaderRows \o d : d \in SeqsUpTo(VoteRowInputs, MaxRows)}

\* a page holding the invalid-bill marker, and all a bill's page holds
InvalidPage ==
    DetailPage("<html>INVALID BILL NUMBER", "General Bill", VersionsUrl, <<>>, <<>>,
               <<VoteUrl>>,
               VoteHeaderRows \o
                 <<VoteRow(11, "Recede", "[H] 0102", U2, 1, 1, 1, 0, 1, 1, 5, "Rejected")>>)

\* the detail pages of a run: the invalid-bill page, a page with an unknown
\* bill type, bills without a vote history and with one
DetailPages ==
    {InvalidPage,
     DetailPage("<html>", "Memorial", VersionsUrl, <<>>, <<>>, <<>>, <<>>),
     DetailPage("<html>", "General Bill", VersionsUrl, <<>>, <<>>, <<>>, <<>>)}
    \cup {DetailPage("<html>", "General Bill", VersionsUrl, <<>>, <<>>, <<VoteUrl>>, t) :
            t \in VoteTables}

ScrapeSessions == {"2019-2020", "2023-2024"}

\* scrape(chamber, session) is called on a scraper that has run before or not
InitScrape ==
    /\ sc_pc = "start"
    /\ sc_session \in ScrapeSessions
    /\ sc_chamber \in {"None", "upper", "lower"}
    /\ chambers = <<>>
    /\ days = <<>>
    /\ bill_links = <<>>
    /\ sc_page = NoPage
    /\ _seen_vote_ids \in {{}, {U1}}
    /\ _subjects = <<>>
    /\ emitted = <<>>
    /\ fetched = <<>>
    /\ raised = "None"
    /\ FnIdle
    /\ RcIdle
    /\ TgIdle
    /\ NmIdle

ChamberLetter(c) == IF c = "upper" THEN "s" ELSE "h"

\* lines 496-505: the seen set is emptied and the chambers are listed
scrape_start ==
    /\ sc_pc = "start"
    /\ _seen_vote_ids' = {}
    /\ chambers' = IF sc_chamber # "None" THEN <<sc_chamber>> ELSE <<"upper", "lower">>
    /\ sc_pc' = "chamber"
    /\ UNCHANGED <<sc_session, sc_chamber, days, bill_links, sc_page, _subjects, emitted, fetched,
                   raised, fnVars, rcVars, tgVars, nmVars>>

\* line 510, `for chamber in chambers`: the loop is at its head, before the
\* first chamber or with the prefiled days of the last one done
AtChamberLoop ==
    \/ sc_pc = "chamber"
    \/ sc_pc = "pdays" /\ days = <<>> /\ bill_links = <<>>

\* lines 510-523: the next chamber's index page is fetched and its day links read
scrape_index ==
    /\ AtChamberLoop
    /\ chambers # <<>>
    /\ LET c == Head(chambers)
           index_url == get_index_url(sc_session, c, ChamberLetter(c))
       IN  /\ sc_chamber' = c
           /\ chambers' = Tail(chambers)
           /\ fetched' = Append(fetched, index_url)
           /\ days' \in SeqsUpTo(IndexDayLinks(index_url, ChamberLetter(c)),
                               Min(MaxDays, MaxScraped - Scraped(fetched)))
    /\ sc_pc' = "days"
    /\ UNCHANGED <<sc_session, bill_links, sc_page, _seen_vote_ids, _subjects, emitted, raised,
                   fnVars, rcVars, tgVars, nmVars>>

\* lines 532-541 and 561-570, `try: data = self.get(day_url).text / except
\* scrapelib.HTTPError: continue`: the fetch of a day page raises
\* scrapelib.HTTPError, which skips the day; or it raises an exception of
\* another class (the connection fails), which no handler catches; or it
\* gives the page, whose bill links are read
DayFetch(day_url) ==
    \/ /\ bill_links' = <<>>
       /\ UNCHANGED <<sc_pc, raised>>
    \/ /\ bill_links' = <<>>
       /\ raised' = "ConnectionError"
       /\ sc_pc' = "error"
    \/ /\ bill_links' \in SeqsUpTo(BillLinkInputs(day_url),
                                  Min(MaxBills, MaxScraped - Scraped(fetched)))
       /\ UNCHANGED <<sc_pc, raised>>

\* lines 524-540: the next day link of the index is unwrapped and fetched;
\* an HTTPError skips the day
scrape_day ==
    /\ sc_pc = "days"
    /\ bill_links = <<>>
    /\ days # <<>>
    /\ LET day_url == DayUrl(Head(days))
       IN  /\ fetched' = Append(fetched, day_url)
           /\ DayFetch(day_url)
    /\ days' = Tail(days)
    /\ UNCHANGED <<sc_session, sc_chamber, chambers, sc_page, _seen_vote_ids, _subjects,
                   emitted, fnVars, rcVars, tgVars, nmVars>>

\* lines 540-545 and 569-574: the next bill link of the day page; a bill of
\* the chamber is scraped, its detail page being one of Pages, and its
\* records are yielded
ScrapeBillFrom(Pages) ==
    /\ sc_pc \in {"days", "pdays"}
    /\ bill_links # <<>>
    /\ LET bill_a == Head(bill_links)
           bill_id == Replace(bill_a[1], ".", "")
       IN  IF StartsWith(Lower(bill_id), ChamberLetter(sc_chamber))
           THEN \E p \in Pages :
                  LET r == scrape_details(bill_a[2], sc_session, sc_chamber, bill_id, p,
                                          _seen_vote_ids, _subjects)
                  IN  /\ sc_page' = p
                      /\ emitted' = emitted \o r.emitted
                      /\ fetched' = fetched \o r.fetched
                      /\ _seen_vote_ids' = r.seen
                      /\ _subjects' = r.subjects
                      /\ raised' = r.raised
                      /\ sc_pc' = IF r.raised # "None" THEN "error" ELSE sc_pc
           ELSE UNCHANGED <<sc_page, emitted, fetched, _seen_vote_ids, _subjects, raised, sc_pc>>
    /\ bill_links' = Tail(bill_links)
    /\ UNCHANGED <<sc_session, sc_chamber, chambers, days, fnVars, rcVars, tgVars, nmVars>>

scrape_bill == ScrapeBillFrom(DetailPages)

\* lines 547-558: the index days are done; the prefiled page is fetched
scrape_prefile ==
    /\ sc_pc = "days"
    /\ bill_links = <<>>
    /\ days = <<>>
    /\ fetched' = Append(fetched, Site \o "sessphp/prefil" \o SubSeq(sc_session, 3, 4) \o ".php")
    /\ days' \in SeqsUpTo(PrefileDayLinks(ChamberLetter(sc_chamber)),
                       Min(MaxDays, MaxScraped - Scraped(fetched)))
    /\ sc_pc' = "pdays"
    /\ UNCHANGED <<sc_session, sc_chamber, chambers, bill_links, sc_page, _seen_vote_ids, _subjects,
                   emitted, raised, fnVars, rcVars, tgVars, nmVars>>

\* lines 560-569: the next prefiled day is fetched as linked
scrape_prefile_day ==
    /\ sc_pc = "pdays"
    /\ bill_links = <<>>
    /\ days # <<>>
    /\ LET day_url == Head(days)
       IN  /\ fetched' = Append(fetched, day_url)
           /\ DayFetch(day_url)
    /\ days' = Tail(days)
    /\ UNCHANGED <<sc_session, sc_chamber, chambers, sc_page, _seen_vote_ids, _subjects,
                   emitted, fnVars, rcVars, tgVars, nmVars>>

\* no chamber is left: the generator is exhausted
scrape_return ==
    /\ AtChamberLoop
    /\ chambers = <<>>
    /\ sc_pc' = "done"
    /\ UNCHANGED <<sc_session, sc_chamber, chambers, days, bill_links, sc_page, _seen_vote_ids,
                   _subjects, emitted, fetched, raised, fnVars, rcVars, tgVars, nmVars>>

NextScrape ==
    \/ scrape_start
    \/ scrape_index
    \/ scrape_day
    \/ scrape_bill
    \/ scrape_prefile
    \/ scrape_prefile_day
    \/ scrape_return

SpecScrape == InitScrape /\ [][NextScrape]_vars

-----------------------------------------------------------------------------
(* scrape_details on one bill link, over the detail pages it may meet *)

\* how many rows the action table of a detail page holds at most
MaxActions == 2

\* the text of the bill type span
BillTypeLabels ==
    {"General Bill", "Concurrent Resolution", "Joint Resolution", "Resolution",
     "Senate Resolution", "House Joint Resolution",
     "General Bill (Joint Resolution)", "Joint Resolution; Concurrent Resolution",
     "JOINT RESOLUTION", "Memorial", ""}

\* rows of the action table, as the texts of their td cells (chamber cell
\* empty: "None"): well-formed rows, a row with a cell too few, a date that
\* is none, a chamber label the scraper does not know
ActionRowInputs ==
    {<<"01/15/20", "Senate", "Introduced and read first time (Senate Journal p.12)">>,
     <<"1/5/99", "House", "Read second time (House Journal-page 3) (Senate Journal-page 9)">>,
     <<"02/29/24", "None", "Signed By Governor">>,
     <<"12/31/68", "Senate", "  Scrivener's error corrected ">>,
     <<"03/01/21", "House",
       "Committee report: Favorable (Senate Journal-page 4) (House Journal-page 2)">>,
     <<"01/15/20", "Senate">>,
     <<"02/30/21", "House", "Read third time">>,
     <<"01/15/20", "Joint", "Read third time">>}

ActionTables == SeqsUpTo(ActionRowInputs, MaxActions)

BillTextUrl == Site \o "sess125_2023-2024/bills/1.htm"

\* the links into /prever/ a versions page holds, (text, href)
PreverInputs ==
    {<<>>,
     <<<<"As introduced", Site \o "sess125_2023-2024/prever/1_20230110.htm">>>>}

OneVoteTable ==
    VoteHeaderRows \o <<VoteRow(11, "Passage", "[S] 0101", U1, 2, 1, 0, 0, 0, 0, 3, "Passed")>>

\* the detail pages scrape_details is run on: every label, every action
\* table (with and without a vote history behind it), the version links,
\* and pages holding the invalid-bill marker
RichPages ==
    {InvalidPage, DetailPage("INVALID BILL NUMBER", "", "", <<>>, <<>>, <<>>, <<>>)}
    \cup {DetailPage("<html>", l, VersionsUrl, <<>>, <<>>, v, OneVoteTable) :
            l \in BillTypeLabels, v \in {<<>>, <<VoteUrl>>}}
    \cup {DetailPage("<html>", "Joint Resolution", VersionsUrl, <<>>, t, v, OneVoteTable) :
            t \in ActionTables, v \in {<<>>, <<VoteUrl>>}}
    \cup {DetailPage("<html>", "General Bill", u, pv, <<>>, <<>>, <<>>) :
            u \in {VersionsUrl, BillTextUrl}, pv \in PreverInputs}

\* scrape() stands in the loop over the bill links of a day page of the
\* chamber, one link left
InitDetails ==
    /\ sc_pc = "days"
    /\ sc_session = "2023-2024"
    /\ sc_chamber \in {"upper", "lower"}
    /\ chambers = <<>>
    /\ days = <<>>
    /\ \E d \in IndexDayLinks(get_index_url(sc_session, sc_chamber, ChamberLetter(sc_chamber)),
                             ChamberLetter(sc_chamber)) :
          /\ fetched = <<get_index_url(sc_session, sc_chamber, ChamberLetter(sc_chamber)), d>>
          /\ bill_links \in {<<b>> : b \in BillLinkInputs(d)}
    /\ sc_page = NoPage
    /\ _seen_vote_ids \in {{}, {U1}}
    /\ _subjects = <<>>
    /\ emitted = <<>>
    /\ raised = "None"
    /\ FnIdle
    /\ RcIdle
    /\ TgIdle
    /\ NmIdle

scrape_bill_details == ScrapeBillFrom(RichPages)

NextDetails == scrape_bill_details

SpecDetails == InitDetails /\ [][NextDetails]_vars

\* LegislationScraper.add_bill: the name of the file a Bill is dumped to,
\* "%s:%s:%s.json" % (session, chamber, bill_id)
add_bill_filename(bill) ==
    bill.legislative_session \o ":" \o bill.chamber \o ":" \o bill.bill_id \o ".json"

-----------------------------------------------------------------------------
(* The module-level functions applied to inputs drawn from bounded sets *)

ActionSuffixes == {"", ", as amended", " (Senate Journal-page 12)"}

\* every registered prefix, as written and lower-cased, alone and continued,
\* and action texts no rule matches
ActionInputs ==
    {classifiers[i][1] \o s : i \in 1..Len(classifiers), s \in ActionSuffixes}
    \cup {Lower(classifiers[i][1]) \o s : i \in 1..Len(classifiers), s \in ActionSuffixes}
    \cup {"", "Amende", " Adopted", "Read first time", "Ratified R 12",
          "Scrivener's error corrected", "Member(s) request name added as sponsor: Hutto",
          "AMENDED AND ADOPTED", "Introduced and committed"}

Sessions ==
    {"2013-2014", "2015-2016", "2017-2018", "2019-2020", "2021-2022", "2023-2024",
     "2025-2026"}

Chambers == {"upper", "lower"}

ChamberLetters == {"s", "h"}

FnCalls ==
    {[fn |-> "action_type", args |-> <<a>>] : a \in ActionInputs}
    \cup {[fn |-> "get_index_url", args |-> <<s, c, l>>] :
            s \in Sessions, c \in Chambers, l \in ChamberLetters}

InitFunctions ==
    /\ fn_call \in FnCalls
    /\ fn_ret = "None"
    /\ fn_pc = "call"
    /\ RcIdle
    /\ ScIdle
    /\ TgIdle
    /\ NmIdle

call_action_type ==
    /\ fn_pc = "call"
    /\ fn_call.fn = "action_type"
    /\ fn_ret' = action_type(fn_call.args[1])
    /\ fn_pc' = "return"
    /\ UNCHANGED <<fn_call, rcVars, scVars, tgVars, nmVars>>

call_get_index_url ==
    /\ fn_pc = "call"
    /\ fn_call.fn = "get_index_url"
    /\ fn_ret' = get_index_url(fn_call.args[1], fn_call.args[2], fn_call.args[3])
    /\ fn_pc' = "return"
    /\ UNCHANGED <<fn_call, rcVars, scVars, tgVars, nmVars>>

NextFunctions == call_action_type \/ call_get_index_url

SpecFunctions == InitFunctions /\ [][NextFunctions]_vars

-----------------------------------------------------------------------------
(* toggle_http_version: requests made through the wrapper and requests     *)
(* made with self.get directly, by the threads of one process.  A thread   *)
(* stands at "idle", inside the wrapped method before its request line is  *)
(* written ("method"), after it ("sent"), between the method's return and  *)
(* the undo ("undo"), after the wrapper returned ("returned") or after an  *)
(* exception left it ("raised"); "plain_sent" is a self.get in flight.     *)

\* downgrade_http_version()
downgrade_http_version == [_http_vsn |-> 10, _http_vsn_str |-> "HTTP/1.0"]

\* undo_downgrade_http_version()
undo_downgrade_http_version == [_http_vsn |-> _HTTP_VSN, _http_vsn_str |-> _HTTP_VSN_STR]

InitToggle ==
    /\ TgIdle
    /\ FnIdle
    /\ RcIdle
    /\ ScIdle
    /\ NmIdle

\* wrapper(): its first statement
wrapper_downgrade(t) ==
    /\ th_pc[t] = "idle"
    /\ HTTPConnection' = downgrade_http_version
    /\ th_pc' = [th_pc EXCEPT ![t] = "method"]
    /\ UNCHANGED <<th_seen, fnVars, rcVars, scVars, nmVars>>

\* method(self, ...), self.get or self.post: the connection writes the
\* request line with the class attribute as it stands
method_send(t) ==
    /\ th_pc[t] = "method"
    /\ th_seen' = [th_seen EXCEPT ![t] = HTTPConnection._http_vsn_str]
    /\ th_pc' = [th_pc EXCEPT ![t] = "sent"]
    /\ UNCHANGED <<HTTPConnection, fnVars, rcVars, scVars, nmVars>>

\* response = method(self, ...)
method_return(t) ==
    /\ th_pc[t] = "sent"
    /\ th_pc' = [th_pc EXCEPT ![t] = "undo"]
    /\ UNCHANGED <<HTTPConnection, th_seen, fnVars, rcVars, scVars, nmVars>>

\* method(self, ...) raises, while connecting or while reading the
\* response: the exception leaves wrapper() at that statement
method_raise(t) ==
    /\ th_pc[t] \in {"method", "sent"}
    /\ th_pc' = [th_pc EXCEPT ![t] = "raised"]
    /\ UNCHANGED <<HTTPConnection, th_seen, fnVars, rcVars, scVars, nmVars>>

\* undo_downgrade_http_version(); return response
wrapper_undo(t) ==
    /\ th_pc[t] = "undo"
    /\ HTTPConnection' = undo_downgrade_http_version
    /\ th_pc' = [th_pc EXCEPT ![t] = "returned"]
    /\ UNCHANGED <<th_seen, fnVars, rcVars, scVars, nmVars>>

\* a request outside the wrapper: self.get(url) as scrape() makes it
get_send(t) ==
    /\ th_pc[t] = "idle"
    /\ th_seen' = [th_seen EXCEPT ![t] = HTTPConnection._http_vsn_str]
    /\ th_pc' = [th_pc EXCEPT ![t] = "plain_sent"]
    /\ UNCHANGED <<HTTPConnection, fnVars, rcVars, scVars, nmVars>>

\* self.get(url) returns or raises
get_finish(t) ==
    /\ th_pc[t] = "plain_sent"
    /\ th_pc' = [th_pc EXCEPT ![t] = "idle"]
    /\ th_seen' = [th_seen EXCEPT ![t] = "None"]
    /\ UNCHANGED <<HTTPConnection, fnVars, rcVars, scVars, nmVars>>

\* the caller of the wrapper goes on, to its next request
wrapper_done(t) ==
    /\ th_pc[t] \in {"returned", "raised"}
    /\ th_pc' = [th_pc EXCEPT ![t] = "idle"]
    /\ th_seen' = [th_seen EXCEPT ![t] = "None"]
    /\ UNCHANGED <<HTTPConnection, fnVars, rcVars, scVars, nmVars>>

NextToggle ==
    \E t \in Threads :
        \/ wrapper_downgrade(t)
        \/ method_send(t)
        \/ method_return(t)
        \/ method_raise(t)
        \/ wrapper_undo(t)
        \/ get_send(t)
        \/ get_finish(t)
        \/ wrapper_done(t)

SpecToggle == InitToggle /\ [][NextToggle]_vars

-----------------------------------------------------------------------------
(* NameMatcher (scripts/pyutils/legislation.py): registrations and lookups *)
(* on one matcher.  The registered objects are "1", "2", "3".              *)

MaxRegistrations == 3

\* the dictionary __setitem__ expects as its key
NameDict(full_name, first_name, last_name, middle_name) ==
    [full_name |-> full_name, first_name |-> first_name,
     last_name |-> last_name, middle_name |-> middle_name]

\* s[0]
FirstChar(s) == SubSeq(s, 1, 1)

\* the set `forms` that __setitem__ builds
Forms(name) ==
    LET first == name.first_name
        last == name.last_name
        middle == name.middle_name
    IN  { name.full_name,
          last,
          last \o ", " \o first,
          first \o " " \o last,
          FirstChar(first) \o " " \o last,
          last \o ", " \o FirstChar(first),
          last \o " (" \o first \o ")" }
        \cup
        IF Len(middle) > 0
        THEN { last \o ", " \o first \o " " \o middle,
               last \o ", " \o FirstChar(first) \o " " \o middle,
               first \o " " \o middle \o " " \o last,
               last \o ", " \o FirstChar(first) \o " " \o FirstChar(middle),
               first \o " " \o FirstChar(middle) \o " " \o last,
               last \o ", " \o first \o " " \o FirstChar(middle) }
        ELSE {}

\* form.replace('.', '').lower()
NormForm(form) == Lower(Replace(form, ".", ""))

\* `for form in forms:` of __setitem__, in whatever order the set gives
RECURSIVE SetForms(_, _, _)
SetForms(names, forms, obj) ==
    IF forms = {} THEN names
    ELSE LET form == CHOOSE f \in forms : TRUE
             key == NormForm(form)
         IN  SetForms(IF key \in DOMAIN names
                      THEN [names EXCEPT ![key] = "None"]
                      ELSE names @@ (key :> obj),
                      forms \ {form}, obj)

\* NameMatcher.__setitem__(name, obj)
__setitem__(names, name, obj) == SetForms(names, Forms(name), obj)

\* NameMatcher.__getitem__(name)
__getitem__(names, name) ==
    LET key == Lower(Replace(Strip(name), ".", ""))
    IN  IF key \in DOMAIN names THEN names[key] ELSE "None"

Legislators ==
    { [name |-> NameDict("Michael J. Stephens", "Michael", "Stephens", "J"), obj |-> "1"],
      [name |-> NameDict("Mike J. Stephens", "Mike", "Stephens", "Joseph"), obj |-> "2"],
      [name |-> NameDict("Ann Lee", "Ann", "Lee", ""), obj |-> "3"] }

Queries ==
    { "Michael Stephens", "Mike Stephens", "Stephens", "Stephens, M",
      "Stephens, M J", "Michael J. Stephens", " stephens, m. ", "Ann Lee",
      "Lee", "Lee, B" }

InitNames ==
    /\ NmIdle
    /\ FnIdle
    /\ RcIdle
    /\ ScIdle
    /\ TgIdle

\* nm[name] = obj
nm_setitem ==
    /\ Len(nm_log) < MaxRegistrations
    /\ \E l \in Legislators :
         /\ self_names' = __setitem__(self_names, l.name, l.obj)
         /\ nm_log' = Append(nm_log, l)
    /\ nm_query' = "None"
    /\ nm_ret' = "None"
    /\ UNCHANGED <<fnVars, rcVars, scVars, tgVars>>

\* nm[name]
nm_getitem ==
    /\ \E q \in Queries :
         /\ nm_query' = q
         /\ nm_ret' = __getitem__(self_names, q)
    /\ UNCHANGED <<self_names, nm_log, fnVars, rcVars, scVars, tgVars>>

NextNames == nm_setitem \/ nm_getitem

SpecNames == InitNames /\ [][NextNames]_vars

-----------------------------------------------------------------------------
(* Claims about the module-level functions *)

Returned(f) == fn_pc = "return" /\ fn_call.fn = f

\* rule i's prefix is a prefix of the action, both lower-cased
RuleMatches(action, i) == StartsWith(Lower(action), Lower(classifiers[i][1]))

\* prefix q textually extends prefix p (case-insensitively, and is longer)
Extends(p, q) == Len(q) > Len(p) /\ StartsWith(Lower(q), Lower(p))

\* C1: action_type returns the tags of the first rule in table order whose
\* prefix the action starts with case-insensitively, None if there is none;
\* when the action starts with two registered prefixes of which one extends
\* the other, the tags are those of the longer one; an action starting with
\* "Amended and adopted" yields [passage, amendment-passage].
C1_FirstAndMostSpecificRuleWins ==
    Returned("action_type") =>
        LET a == fn_call.args[1]
            n == Len(classifiers)
        IN  /\ \/ /\ \A i \in 1..n : ~RuleMatches(a, i)
                  /\ fn_ret = None
               \/ \E i \in 1..n :
                      /\ RuleMatches(a, i)
                      /\ \A j \in 1..(i-1) : ~RuleMatches(a, j)
                      /\ fn_ret = classifiers[i][2]
            /\ \A i, j \in 1..n :
                   (RuleMatches(a, i) /\ RuleMatches(a, j)
                      /\ Extends(classifiers[i][1], classifiers[j][1]))
                   => fn_ret = classifiers[j][2]
            /\ StartsWith(Lower(a), "amended and adopted")
                   => fn_ret = List(<<"passage", "amendment-passage">>)

\* C1's case: an action that starts with "Amended" and with "Amended and
\* adopted" has been classified
C1_Witness ==
    /\ Returned("action_type")
    /\ fn_call.args[1] = "amended and adopted, as amended"
    /\ fn_ret.tags = <<"passage", "amendment-passage">>

ArchivePrefix == "https://web.archive.org/web/"

\* C6: get_index_url returns the archive prefix + the 14-digit snapshot id +
\* "/" + the direct URL when "<session>-<chamber>" is in the snapshot table,
\* and otherwise exactly the direct URL .../sessphp/<letter>intros.php.
C6_IndexUrl ==
    Returned("get_index_url") =>
        LET session == fn_call.args[1]
            chamber == fn_call.args[2]
            letter == fn_call.args[3]
            key == session \o "-" \o chamber
            direct == "https://www.scstatehouse.gov/sessphp/" \o letter \o "intros.php"
        IN  /\ key \in DOMAIN web_archive_ids =>
                  /\ Len(web_archive_ids[key]) = 14
                  /\ IsDigits(web_archive_ids[key])
                  /\ fn_ret = ArchivePrefix \o web_archive_ids[key] \o "/" \o direct
            /\ key \notin DOMAIN web_archive_ids => fn_ret = direct
            /\ (session = "2019-2020" /\ chamber = "upper" /\ letter = "s") =>
                  fn_ret = "https://web.archive.org/web/20201101152857/https://www.scstatehouse.gov/sessphp/sintros.php"
            /\ (session = "2023-2024" /\ chamber = "upper" /\ letter = "s") =>
                  fn_ret = "https://www.scstatehouse.gov/sessphp/sintros.php"

\* C6's case: the archived index of 2019-2020/upper has been resolved
C6_Witness ==
    /\ Returned("get_index_url")
    /\ fn_call.args = <<"2019-2020", "upper", "s">>
    /\ Contains(fn_ret, "20201101152857")

-----------------------------------------------------------------------------
(* Claims about scrape_rollcall *)

IsHeaderLine(line) ==
    \E h \in {"YEAS", "AYES", "NAYS", "EXCUSED", "NOT VOTING", "ABSTAIN", "PAIRED"} :
        StartsWith(line, h)

\* the bucket a header line selects
HeaderBucket(line) ==
    IF StartsWith(line, "YEAS") \/ StartsWith(line, "AYES") THEN "yes"
    ELSE IF StartsWith(line, "NAYS") THEN "no"
    ELSE "vote"

IsSkippedLine(line) == line = "" \/ StartsWith(line, "Page ")

\* the header lines among the first n lines read
HeadersBefore(n) == {j \in 1..n : IsHeaderLine(Strip(pdflines[j]))}

\* the bucket selected by the most recent header among the first n lines
BucketAfter(n) ==
    IF HeadersBefore(n) = {} THEN "None"
    ELSE HeaderBucket(Strip(pdflines[
             CHOOSE j \in HeadersBefore(n) : \A k \in HeadersBefore(n) : k <= j]))

\* the non-empty name tokens of a roster line, trimmed, in source order
NameTokens(line) ==
    LET parts == ReSplitWs3(line)
        trimmed == [k \in 1..Len(parts) |-> Strip(parts[k])]
    IN  SelectSeq(trimmed, LAMBDA t : t # "")

RECURSIVE ExpectedRoster(_)
\* (bucket, name) for every name token of the first n lines, in source order
ExpectedRoster(n) ==
    IF n = 0 THEN <<>>
    ELSE LET line == Strip(pdflines[n])
             b == BucketAfter(n - 1)
         IN  ExpectedRoster(n - 1) \o
             (IF IsHeaderLine(line) \/ IsSkippedLine(line) \/ b = "None" THEN <<>>
              ELSE [k \in 1..Len(NameTokens(line)) |-> <<b, NameTokens(line)[k]>>])

\* the names the calls put into one bucket, in call order
Bucket(b) ==
    LET mine == SelectSeq(votes, LAMBDA c : c.func = b)
    IN  [k \in 1..Len(mine) |-> mine[k].voter]

C4_Roster ==
    /\ [k \in 1..Len(votes) |-> <<votes[k].func, votes[k].voter>>]
           = ExpectedRoster(Len(pdflines))
    /\ current_vfunc = BucketAfter(Len(pdflines))
    /\ pdflines = <<"YEAS", "Smith   Jones   Lee", "NAYS", "Doe">> =>
          /\ Bucket("yes") = <<"Smith", "Jones", "Lee">>
          /\ Bucket("no") = <<"Doe">>
          /\ Bucket("vote") = <<>>

C4_Step ==
    /\ (Len(pdflines') = Len(pdflines) + 1
          /\ IsSkippedLine(Strip(pdflines'[Len(pdflines')])))
        => UNCHANGED <<current_vfunc, option, votes>>
    /\ current_vfunc # "None" => current_vfunc' # "None"

\* C4: every non-empty name token of a roster line is recorded exactly once,
\* in source order, into the bucket of the most recent header line; tokens
\* before the first header are recorded nowhere; blank lines and "Page "
\* lines change neither bucket nor option; the bucket never returns to none.
C4_RosterFollowsHeaders == [](C4_Roster) /\ [][C4_Step]_vars

\* C4's case: the document of the example has been read
C4_Witness ==
    /\ pdflines = <<"YEAS", "Smith   Jones   Lee", "NAYS", "Doe">>
    /\ Len(votes) = 4

\* C5: a YEAS/AYES or NAYS header leaves the state at (yes or no bucket, no
\* option), so the names that follow are recorded carrying no option tag,
\* whatever headers came before.
C5_YeasNaysCarryNoOption ==
    /\ current_vfunc \in {"yes", "no"} => option = "None"
    /\ \A k \in 1..Len(votes) : votes[k].func \in {"yes", "no"} => votes[k].option = "None"

-----------------------------------------------------------------------------
(* scrape_details and scrape(): what a step yields and fetches *)

\* the records yielded and the URLs fetched by the step
NewEmitted == SubSeq(emitted', Len(emitted) + 1, Len(emitted'))
NewFetched == SubSeq(fetched', Len(fetched) + 1, Len(fetched'))

\* the step is a call of scrape_details on the next bill link: the link is
\* consumed and its detail page is fetched
DetailStep ==
    /\ bill_links # <<>>
    /\ bill_links' = Tail(bill_links)
    /\ NewFetched # <<>>
    /\ NewFetched[1] = Head(bill_links)[2]

HasMarker(p) == Contains(p.text, "INVALID BILL NUMBER")

\* the rows of the listing table after the two heading rows
DataRows(p) == SubSeq(p.votes, 3, Len(p.votes))

\* the step fetched the vote listing page of the detail page p
VotesWalked(p) ==
    /\ p.vurl # <<>>
    /\ \E k \in 1..Len(NewFetched) : NewFetched[k] = p.vurl[1]

BadSum(row) ==
    row.cells = 11 /\ row.yeas + row.nays + row.nv + row.exc + row.abst + row.pres # row.total

IsVote(e) == e.type = "VoteEvent"
IsBill(e) == e.type = "Bill"

C2_Step ==
    DetailStep =>
      LET p == sc_page'
          rows == DataRows(p)
          new == NewEmitted
      IN  /\ \A k \in 1..Len(new) :
               IsVote(new[k]) =>
                 \E j \in 1..Len(rows) :
                    /\ rows[j].cells = 11
                    /\ rows[j].href = new[k].dedupe_key
                    /\ rows[j].motion = new[k].motion_text
                    /\ new[k].yes = rows[j].yeas
                    /\ new[k].no = rows[j].nays
                    /\ new[k].other = rows[j].nv + rows[j].exc + rows[j].abst + rows[j].pres
                    /\ new[k].yes + new[k].no + new[k].other = rows[j].total
          /\ (VotesWalked(p) /\ \E j \in 1..Len(rows) : BadSum(rows[j])) =>
               /\ raised' = "AssertionError"
               /\ sc_pc' = "error"
               /\ \A k \in 1..Len(new) : ~IsBill(new[k])

\* C2: every VoteEvent scrape_vote_history yields carries the yes, no and
\* other counts of an 11-cell row of the listing page, other being
\* not-voting + excused + abstain + present, and the three sum to the row's
\* total; a listing page with an 11-cell row whose counts do not sum to its
\* total ends in AssertionError, and no VoteEvent is built from such a row.
C2_CountsSumToTotal == [][C2_Step]_vars

\* a first row was accepted and yielded, the next one failed the assert
C2_Witness ==
    /\ raised = "AssertionError"
    /\ Len(DataRows(sc_page)) = 2
    /\ ~BadSum(DataRows(sc_page)[1])
    /\ BadSum(DataRows(sc_page)[2])
    /\ emitted # <<>>
    /\ IsVote(emitted[Len(emitted)])
    /\ emitted[Len(emitted)].motion_text = DataRows(sc_page)[1].motion

VoteKeys == {emitted[k].dedupe_key : k \in {i \in 1..Len(emitted) : IsVote(emitted[i])}}

C3_Inv ==
    /\ \A i, j \in 1..Len(emitted) :
         (i # j /\ IsVote(emitted[i]) /\ IsVote(emitted[j]))
            => emitted[i].dedupe_key # emitted[j].dedupe_key
    /\ sc_pc # "start" => _seen_vote_ids = VoteKeys

\* the 11-cell rows the loop gets to: those before the first row that fails
\* the assert
Processed(rows) ==
    {j \in 1..Len(rows) : rows[j].cells = 11 /\ \A i \in 1..j : ~BadSum(rows[i])}

C3_Step ==
    (DetailStep /\ VotesWalked(sc_page')) =>
      LET rows == DataRows(sc_page')
          new == NewEmitted
          newVotes == {k \in 1..Len(new) : IsVote(new[k])}
      IN  \A j \in Processed(rows) :
            LET same == {k \in newVotes : new[k].dedupe_key = rows[j].href}
                first == CHOOSE i \in Processed(rows) :
                            /\ rows[i].href = rows[j].href
                            /\ \A h \in Processed(rows) : rows[h].href = rows[j].href => i <= h
            IN  IF rows[j].href \in _seen_vote_ids
                THEN same = {}
                ELSE /\ Cardinality(same) = 1
                     /\ \A k \in same : new[k].motion_text = rows[first].motion

\* C3: in a run of scrape(), no two VoteEvents yielded have the same
\* roll-call document URL as dedupe key, and _seen_vote_ids holds exactly
\* the keys yielded; of the rows a listing page walk gets to, those linking
\* a roll call seen before yield nothing, and those linking one not seen
\* before yield one VoteEvent, built from the first of them.
C3_OneVoteEventPerRollCall == [](C3_Inv) /\ [][C3_Step]_vars

\* two rows of one listing page link the same roll call; the event is the
\* first row's
C3_Witness ==
    /\ Len(DataRows(sc_page)) = 2
    /\ DataRows(sc_page)[1].href = DataRows(sc_page)[2].href
    /\ DataRows(sc_page)[1].motion # DataRows(sc_page)[2].motion
    /\ DataRows(sc_page)[1].cells = 11 /\ DataRows(sc_page)[2].cells = 11
    /\ \E k \in 1..Len(emitted) :
          /\ IsVote(emitted[k])
          /\ emitted[k].dedupe_key = DataRows(sc_page)[1].href
          /\ emitted[k].motion_text = DataRows(sc_page)[1].motion
    /\ \E k \in 1..Len(emitted) : IsBill(emitted[k])
    /\ raised = "None"

IsIndexUrl(url) ==
    \E c \in Chambers : url = get_index_url(sc_session, c, ChamberLetter(c))

\* C7: in a run of scrape(), no page other than an index page is fetched
\* through a URL beginning with the archival prefix: every wrapped day link
\* of an index page, wrapped once or more than once, is fetched at its
\* direct target.
C7_NothingButIndexThroughArchive ==
    \A k \in 1..Len(fetched) :
       StartsWith(fetched[k], ArchivePrefix) => IsIndexUrl(fetched[k])

BillTypes == {"bill", "resolution", "joint resolution", "concurrent resolution"}

\* the page of the step is parsed as a bill: it holds no invalid-bill marker
ParsedStep == DetailStep /\ ~HasMarker(sc_page')

NewBills == {k \in 1..Len(NewEmitted) : IsBill(NewEmitted[k])}

\* what the chain makes of labels that match one substring only, or none
C8_Common ==
    ParsedStep =>
      LET l == sc_page'.bill_type
          new == NewEmitted
          known == \/ Contains(l, "General Bill")
                   \/ Contains(l, "Concurrent Resolution")
                   \/ Contains(l, "Joint Resolution")
                   \/ Contains(l, "Resolution")
      IN  /\ \A k \in NewBills : new[k].classification \in BillTypes
          /\ (known /\ sc_page'.actions = <<>>) => Cardinality(NewBills) = 1
          /\ ~known => /\ raised' = "ValueError"
                       /\ sc_pc' = "error"
                       /\ new = <<>>
          /\ \A k \in NewBills :
               /\ new[k].classification = "resolution" =>
                    /\ Contains(l, "Resolution")
                    /\ ~Contains(l, "Joint Resolution")
                    /\ ~Contains(l, "Concurrent Resolution")
               /\ new[k].classification = "bill" => Contains(l, "General Bill")

C8_AmendedStep ==
    /\ C8_Common
    /\ ParsedStep =>
         LET l == sc_page'.bill_type
         IN  \A k \in NewBills :
               /\ (Contains(l, "Concurrent Resolution") /\ ~Contains(l, "General Bill"))
                     => NewEmitted[k].classification = "concurrent resolution"
               /\ (/\ Contains(l, "Joint Resolution")
                   /\ ~Contains(l, "General Bill")
                   /\ ~Contains(l, "Concurrent Resolution"))
                     => NewEmitted[k].classification = "joint resolution"

C8_OriginalStep ==
    /\ C8_Common
    /\ ParsedStep =>
         LET l == sc_page'.bill_type
         IN  \A k \in NewBills :
               /\ Contains(l, "Concurrent Resolution")
                     => NewEmitted[k].classification = "concurrent resolution"
               /\ Contains(l, "Joint Resolution")
                     => NewEmitted[k].classification = "joint resolution"

\* C8 (amended): scrape_details maps the bill-type label to one of bill,
\* resolution, joint resolution, concurrent resolution, testing "General
\* Bill", then "Concurrent Resolution", then "Joint Resolution", then bare
\* "Resolution": a label containing "Concurrent Resolution" and not "General
\* Bill" gives concurrent resolution, a label containing "Joint Resolution"
\* and neither of the two tested before it gives joint resolution, never
\* resolution; a label matching none raises ValueError and no record is
\* yielded for the page.
C8_BillTypeChain == [][C8_AmendedStep]_vars

\* C8 as stated: every label containing "Joint Resolution" gives joint
\* resolution and every label containing "Concurrent Resolution" gives
\* concurrent resolution.
C8_EveryJointLabelIsJoint == [][C8_OriginalStep]_vars

C8_Witness ==
    /\ sc_page.bill_type = "House Joint Resolution"
    /\ \E k \in 1..Len(emitted) :
          IsBill(emitted[k]) /\ emitted[k].classification = "joint resolution"

IsDetailUrl(url) == Contains(url, "billsearch.php?billnumbers=")

C9_Step ==
    (DetailStep /\ HasMarker(sc_page')) =>
      /\ emitted' = emitted
      /\ raised' = "None"
      /\ fetched' = Append(fetched, Head(bill_links)[2])
      /\ _seen_vote_ids' = _seen_vote_ids
      /\ sc_pc' = sc_pc
      /\ sc_pc' \in {"days", "pdays"}

\* C9: on a detail page holding the invalid-bill marker scrape_details
\* yields no Bill and no VoteEvent, raises nothing, fetches nothing beyond
\* the detail page (no versions page, vote listing or roll call) and leaves
\* _seen_vote_ids alone; scrape() stays in its loop over the bill links, at
\* the next link.
C9_InvalidBillIsSkipped == [][C9_Step]_vars

\* a detail page was fetched and the next fetch was the next bill's detail
\* page, which yielded records: the first held the marker and the run went on
C9_Witness ==
    /\ raised = "None"
    /\ emitted # <<>>
    /\ \E k \in 1..(Len(fetched) - 1) :
          /\ IsDetailUrl(fetched[k])
          /\ IsDetailUrl(fetched[k + 1])
          /\ k + 1 < Len(fetched)

\* the action each well-formed row of ActionRowInputs is to give
C10_Expected ==
    (<<"01/15/20", "Senate", "Introduced and read first time (Senate Journal p.12)">> :>
        [description |-> "Introduced and read first time", date |-> "2020-01-15",
         chamber |-> "upper",
         classification |-> [kind |-> "list", tags |-> <<"introduction", "reading-1">>]]) @@
    (<<"1/5/99", "House", "Read second time (House Journal-page 3) (Senate Journal-page 9)">> :>
        [description |-> "Read second time", date |-> "1999-01-05", chamber |-> "lower",
         classification |-> [kind |-> "str", tags |-> <<"reading-2">>]]) @@
    (<<"02/29/24", "None", "Signed By Governor">> :>
        [description |-> "Signed By Governor", date |-> "2024-02-29",
         chamber |-> "legislature",
         classification |-> [kind |-> "str", tags |-> <<"executive-signature">>]]) @@
    (<<"12/31/68", "Senate", "  Scrivener's error corrected ">> :>
        [description |-> "Scrivener's error corrected", date |-> "2068-12-31",
         chamber |-> "upper", classification |-> [kind |-> "None", tags |-> <<>>]]) @@
    (<<"03/01/21", "House",
       "Committee report: Favorable (Senate Journal-page 4) (House Journal-page 2)">> :>
        [description |-> "Committee report: Favorable", date |-> "2021-03-01",
         chamber |-> "lower",
         classification |-> [kind |-> "str", tags |-> <<"committee-passage-favorable">>]])

C10_Step ==
    ParsedStep =>
      LET rows == sc_page'.actions
          new == NewEmitted
          wellFormed == \A i \in 1..Len(rows) : rows[i] \in DOMAIN C10_Expected
      IN  /\ \A k \in NewBills :
               /\ Len(new[k].actions) = Len(rows)
               /\ \A i \in 1..Len(rows) :
                    /\ rows[i] \in DOMAIN C10_Expected
                    /\ new[k].actions[i] = C10_Expected[rows[i]]
          /\ (wellFormed /\ sc_page'.bill_type = "Joint Resolution") =>
               Cardinality(NewBills) = 1

\* C10: the Bill scrape_details yields has one action per row of the action
\* table, in row order: the date in ISO form, the chamber upper for
\* "Senate", lower for "House", legislature for no label, the description
\* cut at the first "(House Journal" or "(Senate Journal" and stripped, the
\* classification that of action_type on the stripped description; the row
\* ("01/15/20", "Senate", "Introduced and read first time (Senate Journal
\* p.12)") gives 2020-01-15, upper, [introduction, reading-1].
C10_ActionsFollowRows == [][C10_Step]_vars

C10_Witness ==
    /\ Len(sc_page.actions) = 2
    /\ sc_page.actions[1] =
         <<"01/15/20", "Senate", "Introduced and read first time (Senate Journal p.12)">>
    /\ sc_page.actions[2][2] = "House"
    /\ \E k \in 1..Len(emitted) :
          /\ IsBill(emitted[k])
          /\ Len(emitted[k].actions) = 2
          /\ emitted[k].actions[1].date = "2020-01-15"
          /\ emitted[k].actions[1].chamber = "upper"
          /\ emitted[k].actions[1].classification.tags = <<"introduction", "reading-1">>

\* C11: in a run of scrape(), no two Bill records yielded have the same
\* (session, chamber, bill_id), so no two of them are dumped by add_bill to
\* the same file name.
C11_BillTripleIsUnique ==
    \A i, j \in 1..Len(emitted) :
       (i # j /\ IsBill(emitted[i]) /\ IsBill(emitted[j])) =>
          /\ <<emitted[i].legislative_session, emitted[i].chamber, emitted[i].bill_id>>
               # <<emitted[j].legislative_session, emitted[j].chamber, emitted[j].bill_id>>
          /\ add_bill_filename(emitted[i]) # add_bill_filename(emitted[j])

\* the step fetches a day page (of the introduction index or of the
\* prefiled page)
DayStep ==
    /\ sc_pc \in {"days", "pdays"}
    /\ days # <<>>
    /\ days' = Tail(days)

C12_Step ==
    DayStep =>
      /\ raised' = "None"
      /\ sc_pc' = sc_pc
      /\ emitted' = emitted
      /\ chambers' = chambers

\* C12: whatever the fetch of a day page does (it gives the page, or it
\* raises a transport error), the step raises nothing out of scrape() and
\* yields nothing: the run stays in its loop over the day pages, with the
\* later days, the prefiled page and the remaining chambers still to come.
C12_FailedDayIsSkipped == [][C12_Step]_vars

\* the first data row of the page a VoteEvent of the step was built from
RowOf(p, e) ==
    CHOOSE j \in 1..Len(DataRows(p)) :
       /\ DataRows(p)[j].motion = e.motion_text
       /\ \A i \in 1..(j - 1) : DataRows(p)[i].motion # e.motion_text

C13_Inv ==
    /\ \A i, j \in 1..Len(emitted) :
          (i < j /\ IsBill(emitted[i]) /\ IsBill(emitted[j]))
             => ~(emitted[i].chamber = "lower" /\ emitted[j].chamber = "upper")
    /\ \A k \in 1..Len(emitted) :
          IsBill(emitted[k]) =>
             Lower(SubSeq(emitted[k].bill_id, 1, 1)) = ChamberLetter(emitted[k].chamber)
    /\ \A k \in 1..Len(emitted) :
          IsVote(emitted[k]) =>
             \/ \E j \in (k + 1)..Len(emitted) :
                   /\ IsBill(emitted[j])
                   /\ emitted[j].bill_id = emitted[k].bill
                   /\ \A i \in (k + 1)..(j - 1) : IsVote(emitted[i])
             \/ /\ raised = "AssertionError"
                /\ \A i \in (k + 1)..Len(emitted) : IsVote(emitted[i])

C13_Step ==
    /\ sc_pc = "start" =>
          chambers' = IF sc_chamber = "None" THEN <<"upper", "lower">> ELSE <<sc_chamber>>
    /\ chambers' # chambers =>
          \/ sc_pc = "start"
          \/ /\ chambers # <<>> /\ chambers' = Tail(chambers) /\ sc_chamber' = Head(chambers)
             /\ days = <<>> /\ bill_links = <<>> /\ sc_pc \in {"chamber", "pdays"}
             /\ sc_pc' = "days"
    /\ (sc_pc = "days" /\ sc_pc' = "pdays") => (days = <<>> /\ bill_links = <<>>)
    /\ sc_pc = "pdays" => sc_pc' # "days" \/ chambers' # chambers
    /\ bill_links' # bill_links =>
          \/ bill_links # <<>> /\ bill_links' = Tail(bill_links) /\ days' = days
          \/ bill_links = <<>> /\ days # <<>> /\ days' = Tail(days)
    /\ (days' # days /\ days # <<>>) => (days' = Tail(days) /\ bill_links = <<>>)
    /\ (days # <<>> /\ days' = Tail(days)) =>
          fetched' = Append(fetched, IF sc_pc = "days" THEN DayUrl(Head(days)) ELSE Head(days))
    /\ emitted' # emitted => DetailStep
    /\ DetailStep =>
          LET new == NewEmitted
              bill_id == Replace(Head(bill_links)[1], ".", "")
          IN  /\ StartsWith(Lower(bill_id), ChamberLetter(sc_chamber))
              /\ emitted' = emitted \o new
              /\ \A k \in 1..Len(new) :
                    /\ IsBill(new[k]) =>
                          /\ k = Len(new)
                          /\ new[k].bill_id = bill_id
                          /\ new[k].chamber = sc_chamber
                    /\ IsVote(new[k]) => new[k].bill = bill_id
              /\ \A k, l \in 1..Len(new) :
                    (k < l /\ IsVote(new[k]) /\ IsVote(new[l]))
                       => RowOf(sc_page', new[k]) < RowOf(sc_page', new[l])

IsRollcallUrl(url) == url \in DOMAIN RollcallDocs

\* C14: a row whose roll-call document was seen before in the run is
\* skipped ahead of the roster parser, so that over a run every roll-call
\* document is fetched (and parsed) at most once.
C14_RollCallFetchedOnce ==
    \A i, j \in 1..Len(fetched) :
       (i < j /\ IsRollcallUrl(fetched[i])) => fetched[i] # fetched[j]

C15_Step ==
    (ParsedStep /\ Contains(sc_page'.version_url, "/bills/")) =>
      LET u == sc_page'.version_url
      IN  /\ \A k \in 1..Len(NewFetched) : NewFetched[k] # u
          /\ \A k \in NewBills :
                NewEmitted[k].versions =
                   << [note |-> "Filed", url |-> u, media_type |-> "text/html"],
                      [note |-> "Filed", url |-> Replace(u, ".htm", ".docx"),
                       media_type |-> DocxType] >>

\* C15: for a bill whose "View full text" link holds "/bills/",
\* scrape_details fetches no versions page and the Bill's versions are the
\* two "Filed" entries: the link as text/html, and the link with .htm
\* replaced by .docx as a word-processor document.
C15_PrefiledVersions == [][C15_Step]_vars

\* the listing table without the data rows that have not 11 cells
WithoutIrregular(p) ==
    IF Len(p.votes) <= 2 THEN p
    ELSE [p EXCEPT !.votes = SubSeq(p.votes, 1, 2)
                               \o SelectSeq(DataRows(p), LAMBDA row : row.cells = 11)]

\* the motions of the two heading rows and of the 10-cell row
SkippedMotions == {"Vote History", "Motion", "Table"}

C16_Inv ==
    /\ \A k \in 1..Len(emitted) :
          IsVote(emitted[k]) =>
             /\ emitted[k].motion_text \notin SkippedMotions
             /\ emitted[k].dedupe_key # U3
    /\ \A k \in 1..Len(fetched) : fetched[k] # U3
    /\ sc_pc # "start" => U3 \notin _seen_vote_ids

C16_Step ==
    (DetailStep /\ VotesWalked(sc_page')) =>
      LET p == sc_page'
          asIfAbsent == scrape_details(Head(bill_links)[2], sc_session, sc_chamber,
                                       Replace(Head(bill_links)[1], ".", ""),
                                       WithoutIrregular(p), _seen_vote_ids, _subjects)
      IN  /\ emitted' = emitted \o asIfAbsent.emitted
          /\ fetched' = fetched \o asIfAbsent.fetched
          /\ _seen_vote_ids' = asIfAbsent.seen
          /\ raised' = asIfAbsent.raised
          /\ (\A j \in 1..Len(DataRows(p)) : DataRows(p)[j].cells # 11) =>
                /\ raised' = "None"
                /\ _seen_vote_ids' = _seen_vote_ids
                /\ Len(NewEmitted) = 1 /\ IsBill(NewEmitted[1])

C17_Step ==
    DetailStep =>
      /\ _subjects' = _subjects
      /\ subjects_populated(_subjects') = subjects_populated(_subjects)

\* C17: scrape_details only reads _subjects: the keys and the subject sets
\* are the same after it as before, for a bill_id in the index or not, and
\* the test that makes scrape_subjects return at once does not become true
\* through it.
C17_SubjectsOnlyRead == [][C17_Step]_vars

Downgraded == HTTPConnection = downgrade_http_version

Original == HTTPConnection = [_http_vsn |-> _HTTP_VSN, _http_vsn_str |-> _HTTP_VSN_STR]

\* thread t's wrapped request finishes, by a return or by an exception, while
\* no other thread is making a request
WrappedFinish(t) ==
    /\ th_pc[t] \in {"method", "sent", "undo"}
    /\ th_pc'[t] \in {"returned", "raised"}
    /\ \A u \in Threads \ {t} : th_pc[u] = "idle" /\ th_pc'[u] = "idle"

C18_Step == \A t \in Threads : WrappedFinish(t) => Original'

\* C18: when a request made through toggle_http_version finishes, with a
\* response or with an exception, HTTPConnection's version is the one the
\* module read at import, as it was before the request.
C18_VersionRestored == [][C18_Step]_vars

\* C19: while a request made through the wrapper is in flight the version is
\* the downgraded one, whatever other requests do, and a request made
\* outside the wrapper never goes out with the downgraded version.
C19_NoLeak ==
    /\ \A t \in Threads : th_pc[t] \in {"method", "sent"} => Downgraded
    /\ \A t \in Threads : th_pc[t] = "plain_sent" => th_seen[t] # "HTTP/1.0"

\* the registrations made so far whose name generates the form looked up
Generators(q) ==
    LET key == Lower(Replace(Strip(q), ".", ""))
    IN  {i \in DOMAIN nm_log : key \in {NormForm(f) : f \in Forms(nm_log[i].name)}}

\* C20: a lookup on a NameMatcher returns the registered object when exactly
\* one registration made so far generates the form looked up (trimmed,
\* periods removed, lower case), and None when two or more do or none does.
C20_UniqueFormLookup ==
    nm_query # "None" =>
        nm_ret = IF Cardinality(Generators(nm_query)) = 1
                 THEN nm_log[CHOOSE i \in Generators(nm_query) : TRUE].obj
                 ELSE "None"

=============================================================================
